---- MODULE Spec2Model ----
(***************************************************************************)
(* ShaderSystem: shader binding and uniform synchronisation.               *)
(* The state is the ShaderSystem's fields, the objects it reads and writes *)
(* (ShaderProgram.glPrograms, GLProgram.uniformGroups, UniformGroup) and   *)
(* the GPU's program in use; one action per public method.  Variables      *)
(* named "last", "prevBind", "ctxFresh", "uploads", "generated" and        *)
(* "calls" are history variables: they record what the calls did.          *)
(***************************************************************************)
EXTENDS Integers, Sequences, FiniteSets, TLC

\* ---------------------------------------------------------------- bounds
MaxCalls == 7
MaxMembers == 2
MaxUid == 2
MaxDirty == 1
CountCap == 2

\* ------------------------------------------------------ the objects bound
\* null / undefined
Null == 0

\* the WebGL rendering context object the renderer hands to contextChange (a
\* restored context is the same object under a new CONTEXT_UID)
GLs == {1}

\* renderer.CONTEXT_UID values; 0 is the value before the first context
Uids == 0..MaxUid

\* ShaderProgram objects (by program.id), Shader objects, UniformGroup objects
Programs == {1, 2, 3}
Shaders == {1, 2, 3, 4}
Groups == {1, 2}

\* shader.program: shaders 1 and 2 share one ShaderProgram
ProgramOf(s) == CASE s = 1 -> 1 [] s = 2 -> 1 [] s = 3 -> 2 [] OTHER -> 3

\* shader.uniformGroup: group 1 is shared by shaders of different programs
GroupOf(s) == CASE s = 1 -> 1 [] s = 2 -> 2 [] s = 3 -> 1 [] OTHER -> 2

\* group.static
IsStatic(g) == g = 1

StaticGroups == {g \in Groups : IsStatic(g)}

\* the members each group is constructed with, in for-in order
InitialUniforms(g) == IF g = 1 THEN <<"uColor">> ELSE <<"uColor", "uDistance">>

\* program.uniformData[name].type, "" when the program has no such uniform
UniformType(p, name) ==
    CASE name = "uColor" -> "vec4"
      [] name = "uDistance" /\ p = 1 -> "float"
      [] OTHER -> ""

\* programs whose source the GPU rejects
BadPrograms == {3}

VARIABLES
    gl,            \* this.gl
    contextUid,    \* this.renderer.CONTEXT_UID
    shader,        \* this.shader
    program,       \* this.program
    cache,         \* this.cache: signature -> routine
    glPrograms,    \* program.glPrograms: CONTEXT_UID -> GLProgram, per program
    dirtyId,       \* group.dirtyId
    uniforms,      \* the keys of group.uniforms, in for-in order
    syncUniforms,  \* group.syncUniforms: program.id -> routine
    inUse,         \* the GPU's program in use: the handle last given to gl.useProgram
    destroyed,     \* this.destroyed
    generated,     \* history: calls of generateUniformsSync per signature
    last,          \* history: the last call, what it did and what it returned
    prevBind,      \* history: the shader of the preceding bind that returned, since the last reset
    ctxFresh,      \* history: a contextChange happened and no bind has returned since
    compiles,      \* history: successful compilations per (program, context identity)
    uploads,       \* history: uploads of a static group per (program, context identity) since the group last changed
    calls,         \* history: the number of calls made so far
    sigIn,         \* inputs of getSignature in the standalone specification
    sigOut         \* its results

vars == <<gl, contextUid, shader, program, cache, glPrograms, dirtyId, uniforms,
          syncUniforms, inUse, destroyed, generated, last, prevBind, ctxFresh,
          compiles, uploads, calls, sigIn, sigOut>>

histVars == <<prevBind, ctxFresh, compiles, uploads>>
sigVars == <<sigIn, sigOut>>

\* an event of a call's trace
Ev(e, a, b) == [e |-> e, a |-> a, b |-> b]

EmptyFn == [x \in {} |-> Null]

Bump(n) == IF n < CountCap THEN n + 1 ELSE n

\* a[i] with a default for a missing key (JS: a[i] on an object)
Get(f, k) == IF k \in DOMAIN f THEN f[k] ELSE Null

Put(f, k, v) == [x \in DOMAIN f \cup {k} |-> IF x = k THEN v ELSE f[x]]

\* strings.join('-')
RECURSIVE Join(_)
Join(strings) ==
    IF Len(strings) = 0 THEN ""
    ELSE IF Len(strings) = 1 THEN strings[1]
    ELSE strings[1] \o "-" \o Join(Tail(strings))

\* getSignature(group, uniformData).  group.uniforms is the sequence of
\* <<name, value>> members in for-in order; uniformData[name] is the type the
\* program declares for the name, "" when uniformData[name] is falsy
RECURSIVE SignatureStringsByValue(_, _)
SignatureStringsByValue(members, uniformData) ==
    IF Len(members) = 0 THEN <<>>
    ELSE (IF uniformData[members[1][1]] # ""
          THEN <<members[1][2], uniformData[members[1][1]]>>
          ELSE <<members[1][2]>>) \o SignatureStringsByValue(Tail(members), uniformData)

RECURSIVE SignatureStrings(_, _)
SignatureStrings(members, uniformData) ==
    IF Len(members) = 0 THEN <<>>
    ELSE (IF uniformData[members[1][1]] # ""
          THEN <<members[1][1], uniformData[members[1][1]]>>
          ELSE <<members[1][1]>>) \o SignatureStrings(Tail(members), uniformData)

getSignatureByValue(group, uniformData) ==
    Join(SignatureStringsByValue(group.uniforms, uniformData))

getSignature(group, uniformData) == Join(SignatureStrings(group.uniforms, uniformData))

\* every key a group.uniforms object of this scene can hold
UniformNames == {"uColor", "uDistance", "globals"}

\* program.uniformData as getSignature reads it
ProgramUniformData(p) == [n \in UniformNames |-> UniformType(p, n)]

\* the UniformGroup object as getSignature reads it
GroupObject(g, names) ==
    [uniforms |-> [i \in 1..Len(names[g]) |-> <<names[g][i], "0">>], dirtyId |-> dirtyId[g]]

\* shader.uniforms.globals = this.renderer.globalUniforms: an existing key keeps
\* its place, a new key goes last
InjectGlobals(names) ==
    IF \E i \in 1..Len(names) : names[i] = "globals" THEN names
    ELSE Append(names, "globals")

\* the key under which bind, generateShader and getglProgram index program.glPrograms
ContextKeyAnyEntry(p) ==
    IF DOMAIN glPrograms[p] # {}
    THEN CHOOSE u \in DOMAIN glPrograms[p] : \A v \in DOMAIN glPrograms[p] : u <= v
    ELSE contextUid

ContextKeySystemId(p) == 1

ContextKey(p) == contextUid

\* compileProgram(gl, vertexSrc, fragmentSrc, attribMap) throws: the GPU rejects
\* the source, or there is no context to compile with
CompileFails(p) == gl = Null \/ p \in BadPrograms

\* the opaque handle compileProgram returns, never one it returned before: the
\* program, the context identity and how often it was compiled there name it
NewHandle(p) == 100 * p + 10 * contextUid + compiles[p][contextUid] + 1

\* new GLProgram(shaderProgram, uniformData); uid records the context identity
\* it was compiled under
NewGLProgram(p) ==
    [program |-> NewHandle(p), uniformGroups |-> EmptyFn, uid |-> contextUid]

\* bind: this.program !== program
NeedsUseProgramAlways(s) == TRUE

NeedsUseProgramByShader(s) == shader # s

NeedsUseProgramNever(s) == program = Null

NeedsUseProgram(s) == program # ProgramOf(s)

\* bind: the tracked state when generateShader throws (line 82 runs before line 84)
TrackedAfterFailedBindEager(s) == [shader |-> s, program |-> program]

TrackedAfterFailedBind(s) == [shader |-> shader, program |-> program]

\* syncUniformGroup: !group.static || group.dirtyId !== glProgram.uniformGroups[group.id]
NeedsSyncAlways(g, recorded) == TRUE

NeedsSyncOnceOnly(g, recorded) == ~IsStatic(g) \/ g \notin DOMAIN recorded

NeedsSync(g, recorded) ==
    ~IsStatic(g) \/ g \notin DOMAIN recorded \/ dirtyId[g] # recorded[g]

\* generateUniformsSync(group, uniformData): a new routine, named by the
\* signature it is built for and by how often one was built for it
NewRoutine(id, gen) == [key |-> id, n |-> Get(gen, id) + 1]

\* syncUniforms: group.syncUniforms[this.shader.program.id] is set
LocalHitNever(su, g, p) == FALSE

LocalHit(su, g, p) == p \in DOMAIN su[g]

\* createSyncGroups: !this.cache[id]
CacheMissAlways(ca, id) == TRUE

CacheMiss(ca, id) == id \notin DOMAIN ca

\* syncUniformGroup: the dirtyId is recorded (line 120), then syncUniforms looks
\* the routine up and calls it (line 122)
SyncEventsUploadFirst(record, lookup, upload) == lookup \o upload \o record

SyncEvents(record, lookup, upload) == record \o lookup \o upload

\* syncUniformGroup(group) with this.shader = sh, on the given values of the
\* objects it touches: what it leaves behind and what it did
NoSync(glps, su, ca, gen) ==
    [threw |-> FALSE, glPrograms |-> glps, syncUniforms |-> su, cache |-> ca,
     generated |-> gen, trace |-> <<>>, uploaded |-> FALSE]

SyncGroup(g, sh, glps, su, ca, gen, names) ==
    IF sh = Null
    THEN [NoSync(glps, su, ca, gen) EXCEPT !.threw = TRUE]
    ELSE
    LET p == ProgramOf(sh)
        k == ContextKey(p)
    IN  IF k \notin DOMAIN glps[p]
        THEN [NoSync(glps, su, ca, gen) EXCEPT !.threw = TRUE]
        ELSE
        LET glProgram == glps[p][k]
        IN  IF ~NeedsSync(g, glProgram.uniformGroups)
            THEN NoSync(glps, su, ca, gen)
            ELSE
            LET glps1 == [glps EXCEPT ![p] = Put(@, k,
                            [glProgram EXCEPT !.uniformGroups = Put(@, g, dirtyId[g])])]
                local == LocalHit(su, g, p)
                id == getSignature(GroupObject(g, names), ProgramUniformData(p))
                miss == ~local /\ CacheMiss(ca, id)
                gen1 == IF miss THEN Put(gen, id, Bump(Get(gen, id))) ELSE gen
                ca1 == IF miss THEN Put(ca, id, NewRoutine(id, gen)) ELSE ca
                su1 == IF local THEN su ELSE [su EXCEPT ![g] = Put(@, p, ca1[id])]
            IN  [threw |-> FALSE, glPrograms |-> glps1, syncUniforms |-> su1,
                 cache |-> ca1, generated |-> gen1, uploaded |-> TRUE,
                 trace |-> SyncEvents(
                     <<Ev("record", g, IF g \in DOMAIN glProgram.uniformGroups
                                       THEN glProgram.uniformGroups[g] ELSE -1)>>,
                     (IF local THEN <<>> ELSE <<Ev("getSignature", g, p)>>)
                       \o (IF miss THEN <<Ev("generate", g, p)>> ELSE <<>>),
                     <<Ev("upload", g, glProgram.program)>>)]

\* what a call saw when it started
Pre == [prevBind |-> prevBind, ctxFresh |-> ctxFresh, inUse |-> inUse]

NoPre == [prevBind |-> Null, ctxFresh |-> FALSE, inUse |-> Null]

Call(op, arg, flag, threw, trace, ret, retUid, pre) ==
    [op |-> op, arg |-> arg, flag |-> flag, threw |-> threw, trace |-> trace,
     ret |-> ret, retUid |-> retUid, pre |-> pre]

SystemInit ==
    /\ gl = Null
    /\ contextUid = 0
    /\ shader = Null
    /\ program = Null
    /\ cache = EmptyFn
    /\ glPrograms = [p \in Programs |-> EmptyFn]
    /\ dirtyId = [g \in Groups |-> 0]
    /\ uniforms = [g \in Groups |-> InitialUniforms(g)]
    /\ syncUniforms = [g \in Groups |-> EmptyFn]
    /\ inUse = Null
    /\ destroyed = FALSE
    /\ generated = EmptyFn
    /\ prevBind = Null
    /\ ctxFresh = FALSE
    /\ compiles = [p \in Programs |-> [u \in Uids |-> 0]]
    /\ uploads = [g \in StaticGroups |-> [p \in Programs |-> [u \in Uids |-> 0]]]
    /\ calls = 0
    /\ last = Call("new", Null, FALSE, FALSE, <<>>, Null, -1, NoPre)

Init == SystemInit /\ sigIn = Null /\ sigOut = <<>>

\* one more call, while the bound on calls allows it
Tick == calls < MaxCalls /\ calls' = calls + 1

\* history: one more upload of group g through the compiled program of (p, u)
CountUpload(up, g, p, u, uploaded) ==
    IF uploaded /\ IsStatic(g) THEN [up EXCEPT ![g][p][u] = Bump(@)] ELSE up

\* bind(shader, dontSync)
Bind(s, dontSync) ==
    LET p == ProgramOf(s)
        g == GroupOf(s)
        k == ContextKey(p)
        names1 == [uniforms EXCEPT ![g] = InjectGlobals(@)]
        hit == k \in DOMAIN glPrograms[p]
    IN  IF ~hit /\ CompileFails(p)
        THEN \* generateShader throws out of bind
             /\ Tick
             /\ uniforms' = names1
             /\ shader' = TrackedAfterFailedBind(s).shader
             /\ program' = TrackedAfterFailedBind(s).program
             /\ last' = Call("bind", s, dontSync, TRUE, <<Ev("compile", p, Null)>>, Null, -1, Pre)
             /\ UNCHANGED <<gl, contextUid, cache, glPrograms, dirtyId, syncUniforms,
                            inUse, generated, histVars, destroyed, sigVars>>
        ELSE
        LET glps1 == IF hit THEN glPrograms
                     ELSE [glPrograms EXCEPT ![p] = Put(@, k, NewGLProgram(p))]
            glProgram == glps1[p][k]
            use == NeedsUseProgram(s)
            sync == IF dontSync THEN NoSync(glps1, syncUniforms, cache, generated)
                    ELSE SyncGroup(g, s, glps1, syncUniforms, cache, generated, names1)
            trace == (IF hit THEN <<>> ELSE <<Ev("compile", p, glProgram.program)>>)
                     \o (IF use THEN <<Ev("useProgram", glProgram.program, p)>> ELSE <<>>)
                     \o sync.trace
        IN  /\ Tick
            /\ uniforms' = names1
            /\ shader' = s
            /\ program' = IF use THEN p ELSE program
            /\ inUse' = IF use THEN glProgram.program ELSE inUse
            /\ glPrograms' = sync.glPrograms
            /\ syncUniforms' = sync.syncUniforms
            /\ cache' = sync.cache
            /\ generated' = sync.generated
            /\ last' = Call("bind", s, dontSync, sync.threw, trace,
                            glProgram.program, glProgram.uid, Pre)
            /\ prevBind' = s
            /\ ctxFresh' = FALSE
            /\ compiles' = IF hit THEN compiles
                           ELSE [compiles EXCEPT ![p][contextUid] = Bump(@)]
            /\ uploads' = CountUpload(uploads, g, p, glProgram.uid, sync.uploaded)
            /\ UNCHANGED <<gl, contextUid, dirtyId, destroyed, sigVars>>

\* syncUniformGroup(group), called by the draw code on the bound shader
SyncUniformGroup(g) ==
    LET sync == SyncGroup(g, shader, glPrograms, syncUniforms, cache, generated, uniforms)
    IN  /\ Tick
        /\ glPrograms' = sync.glPrograms
        /\ syncUniforms' = sync.syncUniforms
        /\ cache' = sync.cache
        /\ generated' = sync.generated
        /\ last' = Call("syncUniformGroup", g, FALSE, sync.threw, sync.trace, Null, -1, NoPre)
        /\ uploads' = IF sync.uploaded
                      THEN CountUpload(uploads, g, ProgramOf(shader),
                                       glPrograms[ProgramOf(shader)][ContextKey(ProgramOf(shader))].uid,
                                       TRUE)
                      ELSE uploads
        /\ UNCHANGED <<gl, contextUid, shader, program, dirtyId, uniforms, inUse,
                       prevBind, ctxFresh, compiles, destroyed, sigVars>>

\* setUniforms(uniforms): this.shader.program throws on a null this.shader, and
\* glProgram.uniformData on a program without a GLProgram of the context
SetUniformsThrowsNever == FALSE

SetUniformsThrows ==
    shader = Null \/ ContextKey(ProgramOf(shader)) \notin DOMAIN glPrograms[ProgramOf(shader)]

\* setUniforms(uniforms)
SetUniforms ==
    /\ Tick
    /\ last' = IF SetUniformsThrows
               THEN Call("setUniforms", Null, FALSE, TRUE, <<>>, Null, -1, NoPre)
               ELSE Call("setUniforms", Null, FALSE, FALSE,
                         IF shader = Null THEN <<Ev("setUniforms", Null, Null)>>
                         ELSE <<Ev("setUniforms", ProgramOf(shader),
                                   Get(glPrograms[ProgramOf(shader)],
                                       ContextKey(ProgramOf(shader))).program)>>,
                         Null, -1, NoPre)
    /\ UNCHANGED <<gl, contextUid, shader, program, cache, glPrograms, dirtyId, uniforms,
                   syncUniforms, inUse, generated, histVars, destroyed, sigVars>>

\* destroy(): the cache it leaves (the method body is a TODO)
CacheAfterDestroy == cache

\* destroy()
Destroy ==
    /\ Tick
    /\ destroyed' = TRUE
    /\ cache' = CacheAfterDestroy
    /\ last' = Call("destroy", Null, FALSE, FALSE, <<>>, Null, -1, NoPre)
    /\ UNCHANGED <<gl, contextUid, shader, program, glPrograms, dirtyId, uniforms,
                   syncUniforms, inUse, generated, histVars, sigVars>>

\* reset(): the tracked shader and program
ResetKeepsShader == [shader |-> shader, program |-> Null]

ResetKeepsProgram == [shader |-> Null, program |-> program]

ResetTracked == [shader |-> Null, program |-> Null]

\* reset()
Reset ==
    /\ Tick
    /\ shader' = ResetTracked.shader
    /\ program' = ResetTracked.program
    /\ last' = Call("reset", Null, FALSE, FALSE, <<>>, Null, -1, NoPre)
    /\ prevBind' = Null
    /\ UNCHANGED <<gl, contextUid, cache, glPrograms, dirtyId, uniforms, syncUniforms,
                   inUse, generated, ctxFresh, compiles, uploads, destroyed, sigVars>>

\* contextChange(gl), run by the renderer after it has set CONTEXT_UID.  fresh:
\* a new or restored context, which gets the next identity and has no program in
\* use; otherwise the notification is repeated for the context that is current
ContextChange(g, fresh) ==
    /\ Tick
    /\ IF fresh THEN contextUid < MaxUid ELSE gl # Null /\ g = gl
    /\ contextUid' = IF fresh THEN contextUid + 1 ELSE contextUid
    /\ inUse' = IF fresh THEN Null ELSE inUse
    /\ gl' = g
    /\ shader' = ResetTracked.shader
    /\ program' = ResetTracked.program
    /\ last' = Call("contextChange", g, fresh, FALSE, <<>>, Null, -1, NoPre)
    /\ prevBind' = Null
    /\ ctxFresh' = TRUE
    /\ UNCHANGED <<cache, glPrograms, dirtyId, uniforms, syncUniforms, generated,
                   compiles, uploads, destroyed, sigVars>>

\* the application changes a value of the group: UniformGroup.update() bumps dirtyId
Mutate(g) ==
    /\ Tick
    /\ dirtyId[g] < MaxDirty
    /\ dirtyId' = [dirtyId EXCEPT ![g] = @ + 1]
    /\ uploads' = [h \in StaticGroups |->
                      IF h = g THEN [p \in Programs |-> [u \in Uids |-> 0]] ELSE uploads[h]]
    /\ last' = Call("update", g, FALSE, FALSE, <<>>, Null, -1, NoPre)
    /\ UNCHANGED <<gl, contextUid, shader, program, cache, glPrograms, uniforms,
                   syncUniforms, inUse, generated, prevBind, ctxFresh, compiles, destroyed, sigVars>>

Next ==
    \/ \E s \in Shaders, dontSync \in BOOLEAN : Bind(s, dontSync)
    \/ \E g \in Groups : SyncUniformGroup(g)
    \/ Reset
    \/ \E g \in GLs, fresh \in BOOLEAN : ContextChange(g, fresh)
    \/ \E g \in Groups : Mutate(g)
    \/ SetUniforms
    \/ Destroy

Spec == Init /\ [][Next]_vars

\* ------------------------------------------------- getSignature on its own
\* the names, values and declared types its inputs are drawn from
SigNames == {"a", "b"}
SigValues == {"0", "1"}
SigTypes == {"", "float", "vec2"}

\* the member lists of a group.uniforms object: keys are unique
SigMembers ==
    {m \in UNION {[1..n -> SigNames \X SigValues] : n \in 0..MaxMembers} :
        \A i, j \in 1..Len(m) : m[i][1] = m[j][1] => i = j}

SigGroups == [uniforms : SigMembers, dirtyId : {0, 1}]

SigUniformData == [SigNames -> SigTypes]

SigInit ==
    /\ SystemInit
    /\ sigIn \in [g1 : SigGroups, g2 : SigGroups, ud1 : SigUniformData, ud2 : SigUniformData]
    /\ sigOut = <<>>

\* getSignature is called on each group with its uniform data
SigCall ==
    /\ sigOut = <<>>
    /\ sigOut' = <<getSignature(sigIn.g1, sigIn.ud1), getSignature(sigIn.g2, sigIn.ud2)>>
    /\ UNCHANGED <<gl, contextUid, shader, program, cache, glPrograms, dirtyId, uniforms,
                   syncUniforms, inUse, destroyed, generated, last, histVars, calls,
                   sigIn>>

SigNext == SigCall

SigSpec == SigInit /\ [][SigNext]_vars

\* getSignature on member names that a program's type tags can spell: a
\* uniform may be called "float" like any other key
ShapeNames == {"a", "float"}

ShapeMembers ==
    {m \in UNION {[1..n -> ShapeNames \X {"0"}] : n \in 0..MaxMembers} :
        \A i, j \in 1..Len(m) : m[i][1] = m[j][1] => i = j}

ShapeGroups == [uniforms : ShapeMembers, dirtyId : {0}]

ShapeUniformData == [ShapeNames -> SigTypes]

ShapeInit ==
    /\ SystemInit
    /\ sigIn \in [g1 : ShapeGroups, g2 : ShapeGroups,
                   ud1 : ShapeUniformData, ud2 : ShapeUniformData]
    /\ sigOut = <<>>

ShapeSpec == ShapeInit /\ [][SigNext]_vars

\* ------------------------------------------------------------- the claims
Has(trace, e) == \E i \in 1..Len(trace) : trace[i].e = e

Count(trace, e) == Cardinality({i \in 1..Len(trace) : trace[i].e = e})

\* the step is a call of bind / a call of bind that returned
BindStep == calls' # calls /\ last'.op = "bind"

BindReturned == BindStep /\ ~last'.threw

\* C1: between resets and context changes, a bind that returns issues
\* gl.useProgram exactly when its shader's ShaderProgram differs from the
\* ShaderProgram of the preceding bind that returned; the first bind always
\* issues it.  (A bind whose compilation throws issues nothing and is not
\* counted as a preceding bind.)
C1_UseProgramIffProgramDiffers ==
    [][BindReturned =>
         (Has(last'.trace, "useProgram")
            <=> (prevBind = Null \/ ProgramOf(prevBind) # ProgramOf(last'.arg)))]_vars

\* bind(A) after bind(B) switches back to A's program, compiled earlier
C1_Witness ==
    /\ last.op = "bind" /\ ~last.threw
    /\ last.pre.prevBind # Null
    /\ ProgramOf(last.pre.prevBind) # ProgramOf(last.arg)
    /\ Has(last.trace, "useProgram") /\ ~Has(last.trace, "compile")

\* C2: binding a shader whose ShaderProgram is the one of the preceding bind
\* (another Shader instance included) compiles nothing and issues no
\* gl.useProgram; a program is compiled at most once per context identity,
\* exactly once where it has a GLProgram
C2_SharedProgramNoRecompileNoSwitch ==
    /\ [](\A p \in Programs, u \in Uids :
            compiles[p][u] = IF u \in DOMAIN glPrograms[p] THEN 1 ELSE 0)
    /\ [][(BindReturned /\ prevBind # Null /\ ProgramOf(prevBind) = ProgramOf(last'.arg))
            => /\ ~Has(last'.trace, "compile")
               /\ ~Has(last'.trace, "useProgram")
               /\ compiles' = compiles
               /\ inUse' = inUse]_vars

\* shader 2 bound right after shader 1, both of ShaderProgram 1
C2_Witness ==
    /\ last.op = "bind" /\ ~last.threw
    /\ last.pre.prevBind = 1 /\ last.arg = 2
    /\ ~Has(last.trace, "compile") /\ ~Has(last.trace, "useProgram")
    /\ compiles[1][contextUid] = 1

\* the handles of every GLProgram there is
Handles == {glPrograms[p][u].program : <<p, u>> \in {pu \in Programs \X Uids : pu[2] \in DOMAIN glPrograms[pu[1]]}}

\* C3: bind invokes the program compiler exactly when shader.program has no
\* GLProgram for the current context identity, and what it compiles is a new
\* handle; contextChange compiles nothing
C3_CompileIffNoEntryForContext ==
    /\ [][BindStep =>
            /\ Has(last'.trace, "compile")
                 <=> contextUid \notin DOMAIN glPrograms[ProgramOf(last'.arg)]
            /\ Count(last'.trace, "compile") <= 1
            /\ (BindReturned /\ Has(last'.trace, "compile")) => last'.ret \notin Handles]_vars
    /\ [][(calls' # calls /\ last'.op = "contextChange")
            => glPrograms' = glPrograms /\ compiles' = compiles /\ last'.trace = <<>>]_vars

\* the first bind after a context change to a new identity compiles afresh
\* though the program has a GLProgram of the old identity
C3_Witness ==
    /\ last.op = "bind" /\ ~last.threw /\ last.pre.ctxFresh
    /\ Has(last.trace, "compile")
    /\ \E u \in DOMAIN glPrograms[ProgramOf(last.arg)] : u # contextUid

\* the group a call passed to syncUniformGroup, Null when it made no such call
\* or threw before it
SyncCallOf(c) ==
    IF c.op = "syncUniformGroup" /\ ~c.threw THEN c.arg
    ELSE IF c.op = "bind" /\ ~c.threw /\ ~c.flag THEN GroupOf(c.arg)
    ELSE Null

\* glProgram.uniformGroups[group.id] of the program's GLProgram of the current
\* context identity, -1 for undefined
Recorded(g, p) ==
    IF contextUid \in DOMAIN glPrograms[p]
       /\ g \in DOMAIN glPrograms[p][contextUid].uniformGroups
    THEN glPrograms[p][contextUid].uniformGroups[g]
    ELSE -1

\* C4: syncUniformGroup uploads a static group exactly when its dirtyId differs
\* from the value recorded for it in the bound program's GLProgram; so, since
\* the group last changed, every GLProgram has uploaded it at most once, and
\* exactly once where the recorded value is its dirtyId
C4_StaticUploadIffDirty ==
    /\ [](\A g \in StaticGroups, p \in Programs, u \in Uids :
            /\ uploads[g][p][u] <= 1
            /\ uploads[g][p][u] = 1
                 <=> /\ u \in DOMAIN glPrograms[p]
                     /\ g \in DOMAIN glPrograms[p][u].uniformGroups
                     /\ glPrograms[p][u].uniformGroups[g] = dirtyId[g])
    /\ [][(calls' # calls /\ SyncCallOf(last') \in StaticGroups)
            => (Has(last'.trace, "upload")
                  <=> Recorded(SyncCallOf(last'), program') # dirtyId[SyncCallOf(last')])]_vars

\* the static group is uploaded again by the call made after its dirtyId
\* changed from the recorded 0 to 1
C4_Witness ==
    /\ last.op = "syncUniformGroup" /\ ~last.threw /\ last.arg \in StaticGroups
    /\ dirtyId[last.arg] = 1
    /\ Has(last.trace, "upload")
    /\ last.trace[1] = Ev("record", last.arg, 0)
    /\ program # Null /\ uploads[last.arg][program][contextUid] = 1

\* C5: every GLProgram is stored under the context identity it was compiled
\* under, and the GLProgram bind returns, the one getglProgram gives to a sync
\* and every handle bind uses or uploads through is the one compiled under the
\* current context identity
C5_GLProgramOfCurrentContext ==
    /\ \A p \in Programs : \A u \in DOMAIN glPrograms[p] : glPrograms[p][u].uid = u
    /\ (last.op = "bind" /\ ~last.threw) => last.retUid = contextUid
    /\ shader # Null => contextUid \in DOMAIN glPrograms[ProgramOf(shader)]
    /\ \A i \in 1..Len(last.trace) :
         last.trace[i].e = "useProgram" \/ last.trace[i].e = "upload"
           => \E p \in Programs :
                /\ contextUid \in DOMAIN glPrograms[p]
                /\ glPrograms[p][contextUid].program = IF last.trace[i].e = "upload"
                                                       THEN last.trace[i].b ELSE last.trace[i].a

\* under the second context identity a bind reuses and uploads through the
\* GLProgram of that identity while the one of the first identity still exists
C5_Witness ==
    /\ last.op = "bind" /\ ~last.threw
    /\ contextUid = 2 /\ last.retUid = 2
    /\ 1 \in DOMAIN glPrograms[ProgramOf(last.arg)]
    /\ ~Has(last.trace, "compile") /\ Has(last.trace, "upload")

\* C7 as claimed: gl.useProgram is only ever given a handle other than the one
\* in use on the GPU
C7_NeverRedundantUseProgram ==
    (last.op = "bind" /\ Has(last.trace, "useProgram")) => last.ret # last.pre.inUse

\* C7, amended: bind issues gl.useProgram only when shader.program differs from
\* the tracked program, and while a program is tracked the handle it issues is
\* not the one in use on the GPU
C7_UseProgramOnlyOnTrackedChange ==
    [][(BindStep /\ Has(last'.trace, "useProgram"))
         => /\ program # ProgramOf(last'.arg)
            /\ program # Null => last'.ret # inUse
            /\ inUse' = last'.ret]_vars

\* a switch from one tracked program to another
C7_Witness ==
    /\ last.op = "bind" /\ Has(last.trace, "useProgram")
    /\ last.pre.prevBind # Null /\ last.pre.inUse # Null
    /\ last.ret # last.pre.inUse /\ inUse = last.ret

\* C8: the first bind that returns after a contextChange issues gl.useProgram
\* for the GLProgram it resolves
C8_FirstBindAfterContextChangeUses ==
    [][(BindReturned /\ ctxFresh)
         => /\ Has(last'.trace, "useProgram")
            /\ inUse' = last'.ret
            /\ last'.retUid = contextUid]_vars

\* the program bound before a repeated contextChange is bound again: its
\* handle, already in use, is issued again without a compilation
C8_Witness ==
    /\ last.op = "bind" /\ ~last.threw /\ last.pre.ctxFresh
    /\ Has(last.trace, "useProgram") /\ ~Has(last.trace, "compile")
    /\ last.pre.inUse = last.ret

\* two calls of syncUniformGroup(g) in a row with the same program bound (no
\* change of the group in between)
TwoSyncs(g) ==
    /\ calls' # calls
    /\ SyncCallOf(last) = g /\ SyncCallOf(last') = g
    /\ program # Null /\ program' = program

\* C9 as claimed: of two such calls, for any group, the second uploads nothing
C9_SecondSyncNoUpload ==
    [][\A g \in Groups : TwoSyncs(g) => ~Has(last'.trace, "upload")]_vars

\* C9, amended: of two such calls for a static group the second uploads
\* nothing, and the bound GLProgram has uploaded the group exactly once since
\* the group last changed
C9_StaticSecondSyncNoUpload ==
    [][\A g \in StaticGroups :
         TwoSyncs(g) => /\ ~Has(last'.trace, "upload")
                        /\ uploads'[g][program][contextUid] = 1]_vars

\* a second syncUniformGroup of the static group, which did nothing
C9_Witness ==
    /\ last.op = "syncUniformGroup" /\ ~last.threw /\ last.arg \in StaticGroups
    /\ last.trace = <<>>
    /\ program # Null /\ uploads[last.arg][program][contextUid] = 1

\* C10: when compileProgram throws, bind throws, having called the compiler
\* once and gl.useProgram not at all, and leaves program.glPrograms, the
\* tracked shader and program and the program in use as they were
C10_CompileErrorLeavesState ==
    [][BindStep =>
         /\ (contextUid \notin DOMAIN glPrograms[ProgramOf(last'.arg)]
               /\ CompileFails(ProgramOf(last'.arg))) <=> last'.threw
         /\ last'.threw =>
              /\ Count(last'.trace, "compile") = 1
              /\ ~Has(last'.trace, "useProgram")
              /\ glPrograms' = glPrograms
              /\ compiles' = compiles
              /\ shader' = shader /\ program' = program
              /\ inUse' = inUse]_vars

\* a bind of the rejected program while another shader is bound
C10_Witness ==
    /\ last.op = "bind" /\ last.threw
    /\ last.pre.prevBind # Null /\ shader = last.pre.prevBind
    /\ program = ProgramOf(shader)
    /\ glPrograms[ProgramOf(last.arg)] = EmptyFn

\* the member names of a group, in order
MemberNames(group) == [i \in 1..Len(group.uniforms) |-> group.uniforms[i][1]]

\* C6: two groups with the same member names in the same order, each name
\* with the same declared type (or none) in the two uniform data, get the same
\* signature, whatever their values and dirtyIds
C6_SameShapeSameSignature ==
    (/\ Len(sigOut) = 2
     /\ MemberNames(sigIn.g1) = MemberNames(sigIn.g2)
     /\ \A i \in 1..Len(sigIn.g1.uniforms) :
          sigIn.ud1[sigIn.g1.uniforms[i][1]] = sigIn.ud2[sigIn.g1.uniforms[i][1]])
    => sigOut[1] = sigOut[2]

\* two groups of members a and b, every value and the dirtyId different, one
\* typed and one untyped member: one signature
C6_Witness ==
    /\ Len(sigOut) = 2
    /\ MemberNames(sigIn.g1) = <<"a", "b">> /\ MemberNames(sigIn.g2) = <<"a", "b">>
    /\ \A i \in 1..2 : sigIn.g1.uniforms[i][2] # sigIn.g2.uniforms[i][2]
    /\ sigIn.g1.dirtyId # sigIn.g2.dirtyId
    /\ sigIn.ud1 = sigIn.ud2 /\ sigIn.ud1["a"] = "float" /\ sigIn.ud1["b"] = ""
    /\ sigOut[1] = "a-float-b" /\ sigOut[2] = "a-float-b"

\* the state of the system and of the objects it works on, without the history
sysVars == <<gl, contextUid, shader, program, cache, glPrograms, dirtyId, uniforms,
             syncUniforms, inUse, destroyed>>

SetUniformsStep == calls' # calls /\ last'.op = "setUniforms"

\* C11, as stated: setUniforms called while no shader is bound is a silent
\* no-op: it raises no error, uploads nothing and changes no state
C11_SetUniformsUnboundSilent ==
    [][(SetUniformsStep /\ shader = Null)
         => (~last'.threw /\ last'.trace = <<>> /\ UNCHANGED sysVars)]_vars

\* C11, amended: setUniforms called while no shader is bound raises an error
\* (it reads .program of the null this.shader); it uploads nothing and changes
\* no state
C11_SetUniformsUnboundThrows ==
    [][(SetUniformsStep /\ shader = Null)
         => (last'.threw /\ last'.trace = <<>> /\ UNCHANGED sysVars)]_vars

\* setUniforms has been called after a reset or contextChange unbound a shader
\* that was in use
C11_Witness ==
    /\ last.op = "setUniforms"
    /\ last.threw
    /\ shader = Null
    /\ inUse # Null

RedeliveryStep == calls' # calls /\ last'.op = "contextChange" /\ ~last'.flag

\* C12, as stated: a contextChange that delivers the context already current is
\* a no-op: the tracked shader and program and the caches stay as they were
C12_RedeliveredContextIsNoOp ==
    [][RedeliveryStep
         => UNCHANGED <<shader, program, cache, glPrograms, syncUniforms>>]_vars

\* C12, amended: a contextChange that delivers the context already current
\* resets the tracked shader and program to none and changes nothing else (the
\* caches, the compiled programs, the recorded dirtyIds, the context and its
\* identity, the program in use on the GPU); delivered to a system that tracks
\* no shader it changes nothing at all
C12_RedeliveredContextOnlyResets ==
    [][RedeliveryStep
         => /\ shader' = Null
            /\ program' = Null
            /\ UNCHANGED <<gl, contextUid, cache, glPrograms, dirtyId, uniforms,
                           syncUniforms, inUse, destroyed>>
            /\ (shader = Null /\ program = Null) => UNCHANGED sysVars]_vars

\* the current context has been delivered again while a shader was bound and
\* its program in use
C12_Witness ==
    /\ last.op = "contextChange"
    /\ ~last.flag
    /\ shader = Null
    /\ program = Null
    /\ inUse # Null
    /\ cache # EmptyFn

ResetStep == calls' # calls /\ last'.op = "reset"

\* C13: reset() sets the tracked shader and program to none and leaves the rest
\* unchanged: the signature-keyed cache, the GLProgram entries of every program,
\* the recorded dirtyIds, the routine entries of every (group, program), the
\* context reference and the program in use on the GPU
C13_ResetClearsOnlyTracking ==
    [][ResetStep
         => /\ shader' = Null
            /\ program' = Null
            /\ UNCHANGED <<gl, contextUid, cache, glPrograms, dirtyId, uniforms,
                           syncUniforms, inUse, destroyed>>]_vars

\* reset() has run on a system with a cached routine, a compiled program in use,
\* a recorded dirtyId and a routine entry on a group
C13_Witness ==
    /\ last.op = "reset"
    /\ shader = Null
    /\ program = Null
    /\ inUse # Null
    /\ cache # EmptyFn
    /\ \E g \in Groups : syncUniforms[g] # EmptyFn
    /\ \E p \in Programs : \E u \in DOMAIN glPrograms[p] :
           glPrograms[p][u].uniformGroups # EmptyFn

DestroyStep == calls' # calls /\ last'.op = "destroy"

\* C14: after destroy() the signature-keyed sync-routine cache of the system has
\* been released, and destroy() frees no GPU program handle
C14_DestroyReleasesCache ==
    [][DestroyStep => (cache' = EmptyFn /\ glPrograms' = glPrograms)]_vars

\* the routine that a synchronization of the trace looked up by signature:
\* the key, computed on the members the group has after the call's injection
LookupKey(ev) == getSignature(GroupObject(ev.a, uniforms'), ProgramUniformData(ev.b))

\* C15: the generator runs at most once per signature key; a (group, program)
\* pair whose signature is already cached gets the identical cached routine,
\* also under another program; no operation evicts or replaces a cache entry
C15_GenerateOncePerSignature ==
    [][/\ \A id \in DOMAIN cache : id \in DOMAIN cache' /\ cache'[id] = cache[id]
       /\ \A id \in DOMAIN generated' : generated'[id] <= 1
       /\ \A i \in 1..Len(last'.trace) :
             (last'.trace[i].e = "getSignature" /\ LookupKey(last'.trace[i]) \in DOMAIN cache)
               => /\ ~Has(last'.trace, "generate")
                  /\ last'.trace[i].b \in DOMAIN syncUniforms'[last'.trace[i].a]
                  /\ syncUniforms'[last'.trace[i].a][last'.trace[i].b]
                       = cache[LookupKey(last'.trace[i])]]_vars

\* a synchronization found its signature in the cache, and one group holds the
\* same routine for two programs
C15_Witness ==
    /\ Has(last.trace, "getSignature")
    /\ ~Has(last.trace, "generate")
    /\ \E g \in Groups : \E p, q \in DOMAIN syncUniforms[g] :
           p # q /\ syncUniforms[g][p] = syncUniforms[g][q]

\* C16: after the first synchronization of group G under program P the routine
\* is in the global cache under G's signature and in the local entry of (G, P);
\* a later synchronization of G under P uses the local entry: it computes no
\* signature, reads no global entry and generates nothing
C16_LocalEntryShortCircuits ==
    [][\A i \in 1..Len(last'.trace) :
         last'.trace[i].e = "upload"
           => LET g == last'.trace[i].a
                  p == program'
              IN  /\ p \in DOMAIN syncUniforms'[g]
                  /\ syncUniforms'[g][p].key \in DOMAIN cache'
                  /\ cache'[syncUniforms'[g][p].key] = syncUniforms'[g][p]
                  /\ p \in DOMAIN syncUniforms[g]
                       => /\ ~Has(last'.trace, "getSignature")
                          /\ ~Has(last'.trace, "generate")
                          /\ UNCHANGED <<cache, syncUniforms, generated>>
                  /\ p \notin DOMAIN syncUniforms[g]
                       => /\ Has(last'.trace, "getSignature")
                          /\ LookupKey([a |-> g, b |-> p]) \in DOMAIN cache'
                          /\ syncUniforms'[g][p] = cache'[LookupKey([a |-> g, b |-> p])]]_vars

\* a group has been uploaded through its local entry, under a context identity
\* later than the one of its first synchronization
C16_Witness ==
    /\ Has(last.trace, "upload")
    /\ ~Has(last.trace, "getSignature")
    /\ program # Null
    /\ contextUid >= 2

\* C17: the tracked program is none exactly when the tracked shader is none,
\* otherwise it is the tracked shader's program and the handle last given to
\* useProgram is that program's GLProgram of the current context identity; so
\* every upload of bind or syncUniformGroup goes through the program in use
C17_TrackedMatchesGPU ==
    /\ (program = Null) <=> (shader = Null)
    /\ shader # Null
         => /\ program = ProgramOf(shader)
            /\ contextUid \in DOMAIN glPrograms[program]
            /\ inUse = glPrograms[program][contextUid].program
    /\ \A i \in 1..Len(last.trace) :
         last.trace[i].e = "upload" => last.trace[i].b = inUse

\* a group has been uploaded directly, under a second context identity, with a
\* shader bound whose program another shader shares
C17_Witness ==
    /\ last.op = "syncUniformGroup"
    /\ Has(last.trace, "upload")
    /\ shader = 2
    /\ contextUid = 2

\* C18: every local routine entry of a (group, program) pair is the global
\* cache's routine under the signature of the group's current members against
\* the program's uniform types, whatever the order of bind (which injects the
\* globals member) and direct syncUniformGroup calls
C18_LocalEntryMatchesCurrentSignature ==
    \A g \in Groups : \A p \in DOMAIN syncUniforms[g] :
        LET id == getSignature(GroupObject(g, uniforms), ProgramUniformData(p))
        IN  id \in DOMAIN cache /\ syncUniforms[g][p] = cache[id]

\* C19: getSignature gives two (group, uniform data) pairs the same key only if
\* the groups have the same member names in the same order and every member
\* has the same declared type, or none, in both
C19_SameSignatureSameShape ==
    (Len(sigOut) = 2 /\ sigOut[1] = sigOut[2])
    => /\ MemberNames(sigIn.g1) = MemberNames(sigIn.g2)
       /\ \A i \in 1..Len(sigIn.g1.uniforms) :
            sigIn.ud1[sigIn.g1.uniforms[i][1]] = sigIn.ud2[sigIn.g1.uniforms[i][1]]

\* the place of the first event e in a trace that has one
Pos(trace, e) == CHOOSE i \in 1..Len(trace) : trace[i].e = e /\ \A j \in 1..(i - 1) : trace[j].e # e

\* C20, as stated: a synchronization calls the sync routine first and records
\* the group's dirtyId afterwards
C20_UploadBeforeRecord ==
    [][Has(last'.trace, "upload")
         => /\ Has(last'.trace, "record")
            /\ Pos(last'.trace, "upload") < Pos(last'.trace, "record")]_vars

\* C20, amended: a synchronization records the group's dirtyId against the
\* bound program first and calls the sync routine afterwards, in the same call;
\* a call records exactly when it uploads, and leaves the group's dirtyId as
\* the recorded value
C20_RecordBeforeUpload ==
    [][calls' # calls
         => /\ Has(last'.trace, "record") <=> Has(last'.trace, "upload")
            /\ Has(last'.trace, "upload")
                 => /\ Pos(last'.trace, "record") < Pos(last'.trace, "upload")
                    /\ Count(last'.trace, "record") = 1
                    /\ Count(last'.trace, "upload") = 1
                    /\ LET g == last'.trace[Pos(last'.trace, "upload")].a
                       IN  /\ last'.trace[Pos(last'.trace, "record")].a = g
                           /\ glPrograms'[program'][contextUid'].uniformGroups[g]
                                = dirtyId'[g]]_vars

\* a changed static group has been synchronized directly: its dirtyId was
\* recorded, a routine looked up and the upload made, in this order
C20_Witness ==
    /\ last.op = "syncUniformGroup"
    /\ Len(last.trace) >= 3
    /\ last.trace[1].e = "record"
    /\ last.trace[Len(last.trace)].e = "upload"
    /\ IsStatic(last.arg)
    /\ dirtyId[last.arg] = 1


====
